---------------------------- MODULE Spec2Model ----------------------------
(***************************************************************************)
(* The parking backend of src/main.py as a state machine.                  *)
(*                                                                         *)
(* The document store is three collections, each a sequence of documents   *)
(* in insertion order (the order find() enumerates them).  Every request   *)
(* handler runs in a worker; the handlers that write (seed_demo_data,      *)
(* start_booking, end_booking) are cut at their store operations so that   *)
(* the reads and writes of different requests interleave; the handlers     *)
(* that only read (list_lots, recommend_parking, read_root,                *)
(* test_database) are functions of the store.                              *)
(*                                                                         *)
(* Strings are sequences of naturals.  An ObjectId is a positive natural   *)
(* n; str(n) is the one-element string <<n>>, and ObjectId(s) parses a     *)
(* string back, raising on anything that is not a one-element string.     *)
(* Money is in cents, time in minutes, and distances and coordinates in    *)
(* units of 0.05 km of arc, so that the score dist - 0.05 * len(spots) of  *)
(* recommend_parking is dist - Len(spots).                                 *)
(***************************************************************************)
EXTENDS Integers, Sequences, FiniteSets, TLC

VARIABLES
    db,            \* TRUE iff the store handle `db` is not None
    bson,          \* TRUE iff `from bson import ObjectId` succeeded
    parkinglot,    \* collection db["parkinglot"]
    parkingspot,   \* collection db["parkingspot"]
    booking,       \* collection db["booking"]
    nextId,        \* the next ObjectId the store assigns
    now,           \* datetime.now(timezone.utc), in minutes
    pc,            \* pc[w]: where worker w stands in its handler
    local,         \* local[w]: the handler's local variables
    resp,          \* the response the last step returned, NoResp if none
    billed         \* the booking ids of the billing results returned so far

vars == <<db, bson, parkinglot, parkingspot, booking, nextId, now, pc, local, resp, billed>>
store == <<parkinglot, parkingspot, booking>>

(***************************************************************************)
(* Bounds of the model.                                                    *)
(***************************************************************************)
MaxBookings == 2      \* booking records created in one behaviour
MaxTicks == 1         \* clock ticks in one behaviour
TickMinutes == 60     \* minutes one tick advances the clock
MaxSpotInputs == 1    \* spots (in store order) a start request may name
MaxLots == 2          \* lots of a drawn store (SpecQuery)
MaxSpots == 3         \* spots of a drawn store (SpecQuery)
EarlierStart == 11    \* minutes before time 0 at which a drawn booking started (SpecEnd)
EndPrice == 199       \* price_per_hour, in cents, of the lot of a drawn store (SpecEnd)

Worker == {"w1", "w2"}

(***************************************************************************)
(* Program constants.                                                      *)
(***************************************************************************)
SeedSpots == 12             \* range(1, 13)
SeedPrice == 500            \* price_per_hour=5.0, in cents
DefaultPrice == 500         \* the 5.0 of lot.get("price_per_hour", 5.0)
SeedLatitude == 84008       \* latitude=37.7749, in units of 0.05 km of arc
SeedLongitude == -272248    \* longitude=-122.4194, in the same units

(***************************************************************************)
(* Strings and ObjectIds.                                                  *)
(***************************************************************************)
str(n) == <<n>>
ValidObjectId(s) == Len(s) = 1 /\ s[1] > 0
ObjectId(s) == s[1]
EmptyStr == << >>
BadId == <<0, 0>>           \* a string that is no ObjectId
AbsentId == 99              \* a well-formed ObjectId the store never assigns
None == << >>
Some(x) == <<x>>

Max(a, b) == IF a >= b THEN a ELSE b
Abs(a) == IF a >= 0 THEN a ELSE -a

(***************************************************************************)
(* The store operations the handlers use (pymongo, seen from main.py).     *)
(***************************************************************************)
\* db[c].find_one({"_id": id}): the document with that _id, or None.
find_one(coll, id) ==
    LET r == SelectSeq(coll, LAMBDA d : d._id = id) IN
    IF r = << >> THEN None ELSE Some(r[1])

\* db[c].update_one({"_id": id}, {"$set": {"is_occupied": v}})
set_occupied(coll, id, v) ==
    [i \in 1..Len(coll) |->
        IF coll[i]._id = id THEN [coll[i] EXCEPT !.is_occupied = v] ELSE coll[i]]

\* db["booking"].update_one({"_id": id}, {"$set": {"status": "completed",
\* "end_time": end}})
set_completed(coll, id, end) ==
    [i \in 1..Len(coll) |->
        IF coll[i]._id = id
        THEN [coll[i] EXCEPT !.status = "completed", !.end_time = Some(end)]
        ELSE coll[i]]

\* create_document(collection, data): the collection with the document
\* inserted under the next ObjectId; the operation returns str of that id.
create_document(coll, data, id) == Append(coll, [data EXCEPT !._id = id])

(***************************************************************************)
(* The documents of schemas.py.                                            *)
(***************************************************************************)
VehicleType == {"car", "motorcycle", "ev", "accessible"}
Status == {"active", "completed", "cancelled"}

ParkingLot(name, latitude, longitude, price_per_hour, total_spots) ==
    [_id |-> 0, name |-> name, latitude |-> latitude, longitude |-> longitude,
     price_per_hour |-> price_per_hour, total_spots |-> total_spots]

ParkingSpot(lot_id, spot_number, vehicle_type, is_occupied) ==
    [_id |-> 0, lot_id |-> lot_id, spot_number |-> spot_number,
     vehicle_type |-> vehicle_type, is_occupied |-> is_occupied]

Booking(lot_id, spot_id, start_time, status) ==
    [_id |-> 0, lot_id |-> lot_id, spot_id |-> spot_id,
     start_time |-> start_time, end_time |-> None, status |-> status]

(***************************************************************************)
(* Workers.                                                                *)
(***************************************************************************)
NoLocal ==
    [lot_id |-> EmptyStr, spot_id |-> EmptyStr, booking_id |-> EmptyStr,
     doc |-> None, price_per_hour |-> 0, end |-> 0, minutes |-> 0, cost |-> 0]
NoResp == [op |-> "none", code |-> 0, req |-> None]

HTTPException(op, status_code, detail) ==
    [op |-> op, code |-> status_code, detail |-> detail]

Idle(w) == pc[w] = "idle"

\* w answers request req with r: the handler is left and its locals are gone.
Return(w, req, r) ==
    /\ pc' = [pc EXCEPT ![w] = "idle"]
    /\ local' = [local EXCEPT ![w] = NoLocal]
    /\ resp' = r @@ [req |-> req]

\* w moves on to step next of its handler with locals l.
Goto(w, next, l) ==
    /\ pc' = [pc EXCEPT ![w] = next]
    /\ local' = [local EXCEPT ![w] = l]
    /\ resp' = NoResp

Init ==
    /\ db \in BOOLEAN
    /\ bson \in BOOLEAN
    /\ parkinglot = << >>
    /\ parkingspot = << >>
    /\ booking = << >>
    /\ nextId = 1
    /\ now = 0
    /\ pc = [w \in Worker |-> "idle"]
    /\ local = [w \in Worker |-> NoLocal]
    /\ resp = NoResp
    /\ billed = << >>

\* The clock advances.
Tick ==
    /\ now < MaxTicks * TickMinutes
    /\ now' = now + TickMinutes
    /\ resp' = NoResp
    /\ UNCHANGED <<db, bson, parkinglot, parkingspot, booking, nextId, pc, local, billed>>

\* What the client of a request that died gets.
Failed == [op |-> "failed", code |-> 500, req |-> None]

\* The request w runs dies where it stands, between two store operations:
\* what it wrote stays written, what it had not yet written never is.
Crash(w) ==
    /\ ~Idle(w)
    /\ pc' = [pc EXCEPT ![w] = "idle"]
    /\ local' = [local EXCEPT ![w] = NoLocal]
    /\ resp' = Failed
    /\ UNCHANGED <<db, bson, parkinglot, parkingspot, booking, nextId, now, billed>>

(***************************************************************************)
(* POST /seed                                                              *)
(***************************************************************************)
\* The vehicle type seed_demo_data gives spot i.
SeedVehicleType(i) ==
    IF i \in {5} THEN "accessible" ELSE IF i \in {3, 7} THEN "ev" ELSE "car"

\* The spots of the seeding loop, i = 1..n, for the lot with id lot_id,
\* inserted after coll under the ids first, first + 1, ...
RECURSIVE SeedSpotDocs(_, _, _, _)
SeedSpotDocs(coll, lot_id, first, n) ==
    IF n = 0 THEN coll
    ELSE create_document(SeedSpotDocs(coll, lot_id, first, n - 1),
                         ParkingSpot(lot_id, str(n), SeedVehicleType(n), FALSE),
                         first + n - 1)

\* The seed that never finds a lot.
already_seeded_never(existing_lots) == FALSE

\* `if existing_lots:`, existing_lots = list(db["parkinglot"].find())
already_seeded(existing_lots) == existing_lots # << >>

\* db is None, or existing_lots is read and decides.
seed_find(w) ==
    /\ Idle(w)
    /\ IF ~db
       THEN Return(w, None, HTTPException("seed", 500, "Database not configured"))
       ELSE IF already_seeded(parkinglot)
       THEN Return(w, None, [op |-> "seed", code |-> 200, status |-> "ok", seeded |-> FALSE])
       ELSE Goto(w, "seed_lot", NoLocal)
    /\ UNCHANGED <<db, bson, parkinglot, parkingspot, booking, nextId, now, billed>>

\* lot_id = create_document("parkinglot", ParkingLot(...))
seed_lot(w) ==
    /\ pc[w] = "seed_lot"
    /\ parkinglot' = create_document(parkinglot,
            ParkingLot("Downtown Central", SeedLatitude, SeedLongitude,
                       SeedPrice, SeedSpots), nextId)
    /\ nextId' = nextId + 1
    /\ Goto(w, "seed_spots", [NoLocal EXCEPT !.lot_id = str(nextId)])
    /\ UNCHANGED <<db, bson, parkingspot, booking, now, billed>>

\* The loop creating the twelve spots, and the return.  The inserts of the
\* loop only append spots of w's own new lot, so they commute with the steps
\* of every other request up to the relative order of spots of different
\* lots; the loop is one step.
seed_spots(w) ==
    /\ pc[w] = "seed_spots"
    /\ parkingspot' = SeedSpotDocs(parkingspot, local[w].lot_id, nextId, SeedSpots)
    /\ nextId' = nextId + SeedSpots
    /\ Return(w, None, [op |-> "seed", code |-> 200, status |-> "ok", seeded |-> TRUE,
                  lot_id |-> local[w].lot_id])
    /\ UNCHANGED <<db, bson, parkinglot, booking, now, billed>>

\* The loop dies after creating the first n of the twelve spots.
seed_spots_partial(w, n) ==
    /\ pc[w] = "seed_spots"
    /\ parkingspot' = SeedSpotDocs(parkingspot, local[w].lot_id, nextId, n)
    /\ nextId' = nextId + n
    /\ pc' = [pc EXCEPT ![w] = "idle"]
    /\ local' = [local EXCEPT ![w] = NoLocal]
    /\ resp' = Failed
    /\ UNCHANGED <<db, bson, parkinglot, booking, now, billed>>

(***************************************************************************)
(* POST /book/start                                                        *)
(***************************************************************************)
\* The ids a request may carry: of documents of the store, of no document,
\* and malformed.
LotIdInputs ==
    {str(parkinglot[k]._id) : k \in {j \in 1..Len(parkinglot) : j <= 1}}
        \cup {str(AbsentId), BadId}
SpotIdInputs ==
    {str(parkingspot[k]._id) : k \in {j \in 1..Len(parkingspot) : j <= MaxSpotInputs}}
        \cup {str(AbsentId), BadId}
BookingIdInputs ==
    {str(booking[k]._id) : k \in 1..Len(booking)} \cup {str(AbsentId), BadId}

StartBookingRequest(lot_id, spot_id) == [lot_id |-> lot_id, spot_id |-> spot_id]

\* The start requests in flight that may still insert a booking.
StartsInFlight == Cardinality({w \in Worker : pc[w] \in {"start_mark", "start_insert"}})

\* The checks without the one on is_occupied.
start_spot_error_no_conflict(spot) ==
    IF spot = None THEN Some(HTTPException("start", 404, "Spot not found")) ELSE None

\* What the checks of start_booking answer on the spot read, None when they
\* pass: `if not spot` and `if spot.get("is_occupied")`.
start_spot_error(spot) ==
    IF spot = None THEN Some(HTTPException("start", 404, "Spot not found"))
    ELSE IF spot[1].is_occupied
    THEN Some(HTTPException("start", 409, "Spot already occupied"))
    ELSE None

\* The guards, the lot lookup (its result is discarded) and the spot lookup
\* with its checks.
start_check(w, lot_id, spot_id) ==
    /\ Idle(w)
    /\ Len(booking) + StartsInFlight < MaxBookings
    /\ LET req == StartBookingRequest(lot_id, spot_id)
           spot == find_one(parkingspot, ObjectId(spot_id))
       IN  IF ~db
           THEN Return(w, req, HTTPException("start", 500, "Database not configured"))
           ELSE IF ~bson
           THEN Return(w, req, HTTPException("start", 500, "ObjectId not available"))
           ELSE IF ~ValidObjectId(lot_id)
           THEN Return(w, req, HTTPException("start", 400, "Invalid lot id"))
           ELSE IF ~ValidObjectId(spot_id)
           THEN Return(w, req, HTTPException("start", 400, "Invalid spot id"))
           ELSE IF start_spot_error(spot) # None
           THEN Return(w, req, start_spot_error(spot)[1])
           ELSE Goto(w, "start_mark",
                     [NoLocal EXCEPT !.lot_id = lot_id, !.spot_id = spot_id,
                                     !.doc = spot])
    /\ UNCHANGED <<db, bson, parkinglot, parkingspot, booking, nextId, now, billed>>

\* The write as a compare-and-set that gives up on a spot occupied meanwhile.
start_mark_conditional(w) ==
    /\ pc[w] = "start_mark"
    /\ LET now_spot == find_one(parkingspot, local[w].doc[1]._id) IN
       IF now_spot[1].is_occupied
       THEN /\ Return(w, StartBookingRequest(local[w].lot_id, local[w].spot_id),
                      HTTPException("start", 409, "Spot already occupied"))
            /\ UNCHANGED parkingspot
       ELSE /\ parkingspot' = set_occupied(parkingspot, local[w].doc[1]._id, TRUE)
            /\ Goto(w, "start_insert", local[w])
    /\ UNCHANGED <<db, bson, parkinglot, booking, nextId, now, billed>>

\* The request goes on to the insert without marking the spot.
start_mark_skipped(w) ==
    /\ pc[w] = "start_mark"
    /\ Goto(w, "start_insert", local[w])
    /\ UNCHANGED <<db, bson, parkinglot, parkingspot, booking, nextId, now, billed>>

\* db["parkingspot"].update_one({"_id": spot["_id"]}, {"$set": {"is_occupied": True}})
start_mark(w) ==
    /\ pc[w] = "start_mark"
    /\ parkingspot' = set_occupied(parkingspot, local[w].doc[1]._id, TRUE)
    /\ Goto(w, "start_insert", local[w])
    /\ UNCHANGED <<db, bson, parkinglot, booking, nextId, now, billed>>

\* booking_id = create_document("booking", Booking(...)), and the return.
start_insert(w) ==
    /\ pc[w] = "start_insert"
    /\ booking' = create_document(booking,
            Booking(local[w].lot_id, local[w].spot_id, Some(now), "active"), nextId)
    /\ nextId' = nextId + 1
    /\ Return(w, StartBookingRequest(local[w].lot_id, local[w].spot_id),
              [op |-> "start", code |-> 200, booking_id |-> str(nextId),
               status |-> "active"])
    /\ UNCHANGED <<db, bson, parkinglot, parkingspot, now, billed>>

(***************************************************************************)
(* POST /book/end                                                          *)
(***************************************************************************)
\* round(n / d), halves to the even neighbour (Python's round), n >= 0, d > 0.
RoundHalfEven(n, d) ==
    LET q == n \div d
        r == n % d
    IN  IF 2 * r < d THEN q
        ELSE IF 2 * r > d THEN q + 1
        ELSE IF q % 2 = 0 THEN q ELSE q + 1

\* The cost cut off after the second decimal place.
Cost_truncated(minutes, price_per_hour) == (minutes * price_per_hour) \div 60

\* cost = round((minutes / 60.0) * float(price_per_hour), 2), in cents.
Cost(minutes, price_per_hour) == RoundHalfEven(minutes * price_per_hour, 60)

EndBookingRequest(booking_id) == [booking_id |-> booking_id]

\* What the checks of end_booking answer on the booking read, None when they
\* pass: `if not b` and `if b.get("status") != "active"`.
end_booking_error(b) ==
    IF b = None THEN Some(HTTPException("end", 404, "Booking not found"))
    ELSE IF b[1].status # "active"
    THEN Some(HTTPException("end", 409, "Booking already closed"))
    ELSE None

\* The lookup that closes the booking it finds before it checks its status.
end_find_closing(w, booking_id) ==
    /\ Idle(w)
    /\ LET req == EndBookingRequest(booking_id)
           b == find_one(booking, ObjectId(booking_id))
       IN  IF ~db
           THEN /\ Return(w, req, HTTPException("end", 500, "Database not configured"))
                /\ UNCHANGED booking
           ELSE IF ~bson
           THEN /\ Return(w, req, HTTPException("end", 500, "ObjectId not available"))
                /\ UNCHANGED booking
           ELSE IF ~ValidObjectId(booking_id)
           THEN /\ Return(w, req, HTTPException("end", 400, "Invalid booking id"))
                /\ UNCHANGED booking
           ELSE IF end_booking_error(b) # None
           THEN /\ Return(w, req, end_booking_error(b)[1])
                /\ booking' = set_completed(booking, ObjectId(booking_id), now)
           ELSE /\ Goto(w, "end_price",
                        [NoLocal EXCEPT !.booking_id = booking_id, !.doc = b])
                /\ booking' = set_completed(booking, ObjectId(booking_id), now)
    /\ UNCHANGED <<db, bson, parkinglot, parkingspot, nextId, now, billed>>

\* The guards and the booking lookup with its checks.
end_find(w, booking_id) ==
    /\ Idle(w)
    /\ LET req == EndBookingRequest(booking_id)
           b == find_one(booking, ObjectId(booking_id))
       IN  IF ~db
           THEN Return(w, req, HTTPException("end", 500, "Database not configured"))
           ELSE IF ~bson
           THEN Return(w, req, HTTPException("end", 500, "ObjectId not available"))
           ELSE IF ~ValidObjectId(booking_id)
           THEN Return(w, req, HTTPException("end", 400, "Invalid booking id"))
           ELSE IF end_booking_error(b) # None
           THEN Return(w, req, end_booking_error(b)[1])
           ELSE Goto(w, "end_price",
                     [NoLocal EXCEPT !.booking_id = booking_id, !.doc = b])
    /\ UNCHANGED <<db, bson, parkinglot, parkingspot, booking, nextId, now, billed>>

\* The lot of the booking read, None when lot_id is empty or no ObjectId or
\* names no lot.
end_lot(b) ==
    IF b.lot_id = EmptyStr \/ ~ValidObjectId(b.lot_id) THEN None
    ELSE find_one(parkinglot, ObjectId(b.lot_id))

\* The default price whatever the lot.
end_price_per_hour_default(lot) == DefaultPrice

\* price_per_hour = lot.get("price_per_hour", 5.0) if lot else 5.0
end_price_per_hour(lot) ==
    IF lot = None THEN DefaultPrice ELSE lot[1].price_per_hour

\* The price lookup and the computation of minutes and cost.
end_price(w) ==
    /\ pc[w] = "end_price"
    /\ LET b == local[w].doc[1]
           start == IF b.start_time # None THEN b.start_time[1] ELSE now
           end == now
           minutes == end - start
           price_per_hour == end_price_per_hour(end_lot(b))
       IN  Goto(w, "end_close",
                [local[w] EXCEPT !.price_per_hour = price_per_hour, !.end = end,
                                 !.minutes = minutes,
                                 !.cost = Cost(minutes, price_per_hour)])
    /\ UNCHANGED <<db, bson, parkinglot, parkingspot, booking, nextId, now, billed>>

\* db["booking"].update_one({"_id": b["_id"]}, {"$set": {"status": "completed",
\* "end_time": end}})
end_close(w) ==
    /\ pc[w] = "end_close"
    /\ booking' = set_completed(booking, local[w].doc[1]._id, local[w].end)
    /\ Goto(w, "end_free", local[w])
    /\ UNCHANGED <<db, bson, parkinglot, parkingspot, nextId, now, billed>>

\* The release that releases nothing.
end_release_skipped(spots, spot_id) == spots

\* The spots after the best-effort release: a spot_id that is no ObjectId
\* raises, and the exception is swallowed.
end_release(spots, spot_id) ==
    IF ValidObjectId(spot_id) THEN set_occupied(spots, ObjectId(spot_id), FALSE)
    ELSE spots

\* The release of the spot, and the return of the billing result.
end_free(w) ==
    /\ pc[w] = "end_free"
    /\ parkingspot' = end_release(parkingspot, local[w].doc[1].spot_id)
    /\ Return(w, EndBookingRequest(local[w].booking_id),
              [op |-> "end", code |-> 200, duration_minutes |-> local[w].minutes,
               amount_due |-> local[w].cost, currency |-> "USD"])
    /\ billed' = Append(billed, local[w].booking_id)
    /\ UNCHANGED <<db, bson, parkinglot, booking, nextId, now>>

\* The release raising without the `except`: the request fails.
end_free_propagates(w) ==
    /\ pc[w] = "end_free"
    /\ Return(w, EndBookingRequest(local[w].booking_id),
              HTTPException("end", 500, "Internal Server Error"))
    /\ UNCHANGED <<db, bson, parkinglot, parkingspot, booking, nextId, now, billed>>

\* The release of the spot where update_one raises (the store fails the
\* write): `except Exception: pass`, and the return of the billing result.
end_free_raises(w) ==
    /\ pc[w] = "end_free"
    /\ Return(w, EndBookingRequest(local[w].booking_id),
              [op |-> "end", code |-> 200, duration_minutes |-> local[w].minutes,
               amount_due |-> local[w].cost, currency |-> "USD"])
    /\ billed' = Append(billed, local[w].booking_id)
    /\ UNCHANGED <<db, bson, parkinglot, parkingspot, booking, nextId, now>>

(***************************************************************************)
(* GET /, GET /test, GET /lots, POST /recommend: one step each, a function *)
(* of the store.                                                           *)
(***************************************************************************)
read_root ==
    /\ resp' = [op |-> "root", code |-> 200, req |-> None,
                message |-> "AI Parking API is running"]
    /\ UNCHANGED <<db, bson, parkinglot, parkingspot, booking, nextId, now, pc, local, billed>>

test_database ==
    /\ resp' = [op |-> "test", code |-> 200, req |-> None, backend |-> "Running",
                database |-> IF db THEN "Connected" ELSE "Not Available"]
    /\ UNCHANGED <<db, bson, parkinglot, parkingspot, booking, nextId, now, pc, local, billed>>

\* total - occupied, not clamped.
available_spots_unclamped(lot) ==
    lot.total_spots
        - Len(SelectSeq(parkingspot,
                LAMBDA s : s.lot_id = str(lot._id) /\ s.is_occupied))

\* available = max(total - occupied, 0), occupied the count of the spots
\* with this lot_id and is_occupied.
available_spots(lot) ==
    LET lot_id == str(lot._id)
        total == lot.total_spots
        occupied == Len(SelectSeq(parkingspot,
                        LAMBDA s : s.lot_id = lot_id /\ s.is_occupied))
    IN  Max(total - occupied, 0)

LotWithAvailability(lot) ==
    [id |-> str(lot._id), name |-> lot.name, latitude |-> lot.latitude,
     longitude |-> lot.longitude, price_per_hour |-> lot.price_per_hour,
     total_spots |-> lot.total_spots, available_spots |-> available_spots(lot)]

list_lots ==
    /\ resp' = IF ~db
               THEN HTTPException("lots", 500, "Database not configured") @@ [req |-> None]
               ELSE [op |-> "lots", code |-> 200, req |-> None,
                     body |-> [k \in 1..Len(parkinglot) |->
                                  LotWithAvailability(parkinglot[k])]]
    /\ UNCHANGED <<db, bson, parkinglot, parkingspot, booking, nextId, now, pc, local, billed>>

\* The great-circle distance R * c, c = 2 * atan2(sqrt(a), sqrt(1 - a)),
\* a = sin(dlat/2)^2 + cos(lat1) * cos(lat2) * sin(dlon/2)^2, on the points
\* the model uses: a point and itself (a = 0, c = 0), and two points of the
\* equator less than half the circumference apart (a = sin(dlon/2)^2,
\* c = |dlon|).
haversine(lat1, lon1, lat2, lon2) ==
    CASE lat1 = lat2 /\ lon1 = lon2 -> 0
      [] lat1 = 0 /\ lat2 = 0 -> Abs(lon2 - lon1)

RecommendationRequest(lat, lng, vehicle_type) ==
    [lat |-> lat, lng |-> lng, vehicle_type |-> vehicle_type]

\* `if req.vehicle_type:`: a filter is given and is not the empty string.
truthy(vehicle_type) == vehicle_type # None /\ vehicle_type[1] # ""

\* The unoccupied spots of the lot, the vehicle type ignored.
qualifying_spots_any_type(lot, vehicle_type) ==
    SelectSeq(parkingspot, LAMBDA s : s.lot_id = str(lot._id) /\ ~s.is_occupied)

\* The spots of the lot of the type asked for, occupied or not.
qualifying_spots_occupied_too(lot, vehicle_type) ==
    LET spots == SelectSeq(parkingspot, LAMBDA s : s.lot_id = str(lot._id))
    IN  IF vehicle_type # None /\ vehicle_type[1] # ""
        THEN SelectSeq(spots, LAMBDA s : s.vehicle_type = vehicle_type[1])
        ELSE spots

\* The spots of the lot that qualify: unoccupied and, under a filter, of
\* that vehicle type; in store order.
qualifying_spots(lot, vehicle_type) ==
    LET lot_id == str(lot._id)
        spots == SelectSeq(parkingspot, LAMBDA s : s.lot_id = lot_id /\ ~s.is_occupied)
    IN  IF truthy(vehicle_type)
        THEN SelectSeq(spots, LAMBDA s : s.vehicle_type = vehicle_type[1])
        ELSE spots

\* score = dist - 0.05 * len(spots)
score(dist, spots) == dist - Len(spots)

\* `if score <= best_score`: the last lot of a tie wins.
better_or_equal(s, best_score) == best_score = None \/ s <= best_score[1]

\* `if score < best_score`, best_score None standing for float("inf").
better(s, best_score) == best_score = None \/ s < best_score[1]

\* The loop over the lots from index i on: <<best, chosen_spot>>.
RECURSIVE recommend_scan(_, _, _, _, _)
recommend_scan(req, i, best, best_score, chosen_spot) ==
    IF i > Len(parkinglot) THEN <<best, chosen_spot>>
    ELSE LET lot == parkinglot[i]
             spots == qualifying_spots(lot, req.vehicle_type)
             dist == haversine(req.lat, req.lng, lot.latitude, lot.longitude)
         IN  IF spots = << >>
             THEN recommend_scan(req, i + 1, best, best_score, chosen_spot)
             ELSE IF better(score(dist, spots), best_score)
             THEN recommend_scan(req, i + 1, Some(lot),
                                 Some(score(dist, spots)), Some(spots[1]))
             ELSE recommend_scan(req, i + 1, best, best_score, chosen_spot)

RecommendationResponse(req, best, chosen_spot) ==
    [op |-> "recommend", code |-> 200, req |-> req,
     lot_id |-> str(best._id), lot_name |-> best.name,
     spot_id |-> str(chosen_spot._id), spot_number |-> chosen_spot.spot_number,
     reason |-> "Closest lot with available matching spots"]

recommend_response(req) ==
    IF ~db THEN HTTPException("recommend", 500, "Database not configured") @@ [req |-> req]
    ELSE IF parkinglot = << >>
    THEN HTTPException("recommend", 404, "No parking lots available. Seed data first.")
            @@ [req |-> req]
    ELSE LET r == recommend_scan(req, 1, None, None, None) IN
         IF r[1] = None
         THEN HTTPException("recommend", 404, "No suitable spots found") @@ [req |-> req]
         ELSE RecommendationResponse(req, r[1][1], r[2][1])

\* The recommendation that reserves the spot it returns.
recommend_parking_reserving(req) ==
    /\ resp' = recommend_response(req)
    /\ parkingspot' =
            IF recommend_response(req).code = 200
            THEN set_occupied(parkingspot, ObjectId(recommend_response(req).spot_id), TRUE)
            ELSE parkingspot
    /\ UNCHANGED <<db, bson, parkinglot, booking, nextId, now, pc, local, billed>>

recommend_parking(req) ==
    /\ resp' = recommend_response(req)
    /\ UNCHANGED <<db, bson, parkinglot, parkingspot, booking, nextId, now, pc, local, billed>>

(***************************************************************************)
(* The specifications.                                                     *)
(***************************************************************************)
\* Every other worker is idle.
Alone(w) == \A v \in Worker \ {w} : Idle(v)

\* No request is in flight.
Quiescent == \A w \in Worker : Idle(w)

Next ==
    \/ Tick
    \/ \E w \in Worker : seed_find(w)
    \/ \E w \in Worker : seed_lot(w)
    \/ \E w \in Worker : seed_spots(w)
    \/ \E w \in Worker, lot_id \in LotIdInputs, spot_id \in SpotIdInputs :
            start_check(w, lot_id, spot_id)
    \/ \E w \in Worker : start_mark(w)
    \/ \E w \in Worker : start_insert(w)
    \/ \E w \in Worker, booking_id \in BookingIdInputs : end_find(w, booking_id)
    \/ \E w \in Worker : end_price(w)
    \/ \E w \in Worker : end_close(w)
    \/ \E w \in Worker : end_free(w)

\* Requests from an empty store, their store operations interleaved.
Spec == Init /\ [][Next]_vars

\* The vehicle types asked for where the store is the seeded one; the
\* requester stands at the seeded lot.
SeqVehicleType == {None, Some(""), Some("ev"), Some("accessible")}

\* Every request, one at a time: a worker steps only while every other
\* worker is idle.
NextSeq ==
    \/ Tick
    \/ \E w \in Worker : Alone(w) /\ seed_find(w)
    \/ \E w \in Worker : Alone(w) /\ seed_lot(w)
    \/ \E w \in Worker : Alone(w) /\ seed_spots(w)
    \/ \E w \in Worker, lot_id \in LotIdInputs, spot_id \in SpotIdInputs :
            Alone(w) /\ start_check(w, lot_id, spot_id)
    \/ \E w \in Worker : Alone(w) /\ start_mark(w)
    \/ \E w \in Worker : Alone(w) /\ start_insert(w)
    \/ \E w \in Worker, booking_id \in BookingIdInputs :
            Alone(w) /\ end_find(w, booking_id)
    \/ \E w \in Worker : Alone(w) /\ end_price(w)
    \/ \E w \in Worker : Alone(w) /\ end_close(w)
    \/ \E w \in Worker : Alone(w) /\ end_free(w)
    \/ Quiescent /\ read_root
    \/ Quiescent /\ test_database
    \/ Quiescent /\ list_lots
    \/ \E vehicle_type \in SeqVehicleType :
            Quiescent /\ recommend_parking(
                RecommendationRequest(SeedLatitude, SeedLongitude, vehicle_type))

SpecSeq == Init /\ [][NextSeq]_vars

\* The stores the read-only handlers are applied to.  Lot k has _id k and
\* lies on the equator; the spots follow with the next ids, each naming a
\* lot of the store or, while the store holds fewer than MaxLots lots, the
\* id of a lot that does not exist.
QueryLongitude == {0, 1}
QueryTotal == {1, 2}
QueryLots(Longitudes, Totals) ==
    UNION {{[k \in 1..n |->
                [ParkingLot("Lot", 0, f[k][1], SeedPrice, f[k][2]) EXCEPT !._id = k]]
            : f \in [1..n -> Longitudes \X Totals]} : n \in 0..MaxLots}
\* An occupied spot is filtered out whatever its type: one occupied kind.
QuerySpotKind == {<<"car", FALSE>>, <<"ev", FALSE>>, <<"ev", TRUE>>}
QuerySpots(Kinds, lots) ==
    LET lot_ids == {i \in 1..MaxLots : i <= lots + 1} IN
    UNION {{[k \in 1..n |->
                [ParkingSpot(str(f[k][1]), str(k), f[k][2][1], f[k][2][2])
                    EXCEPT !._id = MaxLots + k]]
            : f \in [1..n -> lot_ids \X Kinds]} : n \in 0..MaxSpots}

InitQuery ==
    /\ db \in BOOLEAN
    /\ bson = TRUE
    /\ \/ /\ parkinglot \in QueryLots({0}, QueryTotal)
          /\ parkingspot \in QuerySpots({<<"car", FALSE>>, <<"car", TRUE>>},
                                        Len(parkinglot))
       \/ /\ parkinglot \in QueryLots(QueryLongitude, {1})
          /\ parkingspot \in QuerySpots(QuerySpotKind, Len(parkinglot))
    /\ db \/ (parkinglot = << >> /\ parkingspot = << >>)
    /\ booking = << >>
    /\ nextId = MaxLots + MaxSpots + 1
    /\ now = 0
    /\ pc = [w \in Worker |-> "idle"]
    /\ local = [w \in Worker |-> NoLocal]
    /\ resp = NoResp
    /\ billed = << >>

QueryVehicleType == {None, Some(""), Some("ev")}

NextQuery ==
    \/ list_lots
    \/ \E vehicle_type \in QueryVehicleType :
            recommend_parking(RecommendationRequest(0, 0, vehicle_type))

\* The read-only requests on a drawn store.
SpecQuery == InitQuery /\ [][NextQuery]_vars

\* The requests that write, one at a time, each free to die between two of
\* its store operations; and the listing of the lots.
NextCrash ==
    \/ Tick
    \/ \E w \in Worker : Alone(w) /\ seed_find(w)
    \/ \E w \in Worker : Alone(w) /\ seed_lot(w)
    \/ \E w \in Worker : Alone(w) /\ seed_spots(w)
    \/ \E w \in Worker, n \in 1..(SeedSpots - 1) : Alone(w) /\ seed_spots_partial(w, n)
    \/ \E w \in Worker, lot_id \in LotIdInputs, spot_id \in SpotIdInputs :
            Alone(w) /\ start_check(w, lot_id, spot_id)
    \/ \E w \in Worker : Alone(w) /\ start_mark(w)
    \/ \E w \in Worker : Alone(w) /\ start_insert(w)
    \/ \E w \in Worker, booking_id \in BookingIdInputs :
            Alone(w) /\ end_find(w, booking_id)
    \/ \E w \in Worker : Alone(w) /\ end_price(w)
    \/ \E w \in Worker : Alone(w) /\ end_close(w)
    \/ \E w \in Worker : Alone(w) /\ end_free(w)
    \/ \E w \in Worker : Alone(w) /\ Crash(w)
    \/ Quiescent /\ list_lots

SpecCrash == Init /\ [][NextCrash]_vars

\* The stores end_booking is applied to: one lot, one occupied spot of it
\* and one active booking, written by any client of the store.  The
\* booking's lot_id is missing, malformed, of no lot, or of the lot; its
\* spot_id is of the spot, of no spot, or malformed; its start_time is
\* missing, the time 0, or EarlierStart minutes earlier.
EndLotIds == {EmptyStr, BadId, str(AbsentId), str(1)}
EndSpotIds == {str(2), str(AbsentId), BadId}
EndStartTimes == {None, Some(0), Some(0 - EarlierStart)}
EndBookings ==
    {<<[Booking(lot_id, spot_id, start_time, "active") EXCEPT !._id = 3]>> :
        lot_id \in EndLotIds, spot_id \in EndSpotIds, start_time \in EndStartTimes}

InitEnd ==
    /\ db = TRUE
    /\ bson = TRUE
    /\ parkinglot = <<[ParkingLot("Lot", 0, 0, EndPrice, 1) EXCEPT !._id = 1]>>
    /\ parkingspot = <<[ParkingSpot(str(1), str(1), "car", TRUE) EXCEPT !._id = 2]>>
    /\ booking \in EndBookings
    /\ nextId = 4
    /\ now = 0
    /\ pc = [w \in Worker |-> "idle"]
    /\ local = [w \in Worker |-> NoLocal]
    /\ resp = NoResp
    /\ billed = << >>

NextEnd ==
    \/ Tick
    \/ \E w \in Worker, booking_id \in BookingIdInputs : end_find(w, booking_id)
    \/ \E w \in Worker : end_price(w)
    \/ \E w \in Worker : end_close(w)
    \/ \E w \in Worker : end_free(w)
    \/ \E w \in Worker : end_free_raises(w)

\* The end requests on a drawn store, their store operations interleaved,
\* the release of the spot failing or not.
SpecEnd == InitEnd /\ [][NextEnd]_vars

(***************************************************************************)
(* The claims.                                                             *)
(***************************************************************************)
\* The booking names the spot: its spot_id parses to the spot's _id.
References(b, spot) == ValidObjectId(b.spot_id) /\ ObjectId(b.spot_id) = spot._id

\* The active bookings that name the spot.
ActiveBookingsOf(spot) ==
    {k \in 1..Len(booking) : booking[k].status = "active" /\ References(booking[k], spot)}

\* C1: between requests, a spot is occupied if and only if exactly one active
\* booking references it; in particular no two active bookings reference
\* the same spot.
C1_OccupiedIffOneActiveBooking ==
    Quiescent =>
        \A k \in 1..Len(parkingspot) :
            parkingspot[k].is_occupied
                <=> Cardinality(ActiveBookingsOf(parkingspot[k])) = 1

\* Worker w is in start_booking, past the occupancy check, for this spot.
PastCheck(w, spot) ==
    pc[w] \in {"start_mark", "start_insert"} /\ local[w].doc[1]._id = spot._id

\* Another start request got past the occupancy check of the spot w read:
\* it is in flight, or its booking is already there.
Racing(w) ==
    LET spot == local[w].doc[1] IN
    \/ \E v \in Worker \ {w} : PastCheck(v, spot)
    \/ ActiveBookingsOf(spot) # {}

\* C2: a start request that read is_occupied = false goes on to succeed
\* although another start request for the same spot passed the same check:
\* its write marks the spot, and its insert adds an active booking for the
\* spot and returns status "active".
C2_RacingStartSucceeds ==
    [][\A w \in Worker :
        /\ (pc[w] = "start_mark" /\ pc'[w] # pc[w] /\ Racing(w)) =>
              /\ pc'[w] = "start_insert"
              /\ \E k \in 1..Len(parkingspot') :
                    /\ parkingspot'[k]._id = local[w].doc[1]._id
                    /\ parkingspot'[k].is_occupied
        /\ (pc[w] = "start_insert" /\ pc'[w] # pc[w] /\ Racing(w)) =>
              /\ pc'[w] = "idle"
              /\ resp'.op = "start" /\ resp'.code = 200 /\ resp'.status = "active"
              /\ Len(booking') = Len(booking) + 1
              /\ booking'[Len(booking')].status = "active"
              /\ References(booking'[Len(booking')], local[w].doc[1])
              /\ resp'.booking_id = str(booking'[Len(booking')]._id)]_vars

\* C2, reached: two active bookings reference one spot, the second of them
\* just returned to its request as a success.
C2_DoubleBooking ==
    /\ resp.op = "start" /\ resp.code = 200
    /\ \E k \in 1..Len(parkingspot) :
          Cardinality(ActiveBookingsOf(parkingspot[k])) = 2

\* The spot a start request names, None when there is none.
NamedSpot(req) ==
    IF ValidObjectId(req.spot_id) THEN find_one(parkingspot, ObjectId(req.spot_id))
    ELSE None

\* C3: a start request with well-formed ids that finds its spot occupied is
\* answered 409 and writes nothing; none gets past the check.
C3_OccupiedSpotConflicts ==
    [][/\ \A w \in Worker :
            (pc[w] = "idle" /\ pc'[w] = "start_mark") =>
                LET spot == find_one(parkingspot, ObjectId(local'[w].spot_id))
                IN  spot # None /\ ~spot[1].is_occupied
       /\ (pc' = pc /\ resp'.op = "start" /\ db /\ bson
              /\ ValidObjectId(resp'.req.lot_id)
              /\ NamedSpot(resp'.req) # None
              /\ NamedSpot(resp'.req)[1].is_occupied) =>
                /\ resp'.code = 409
                /\ store' = store]_vars

\* C3, reached: a start request was just answered 409 for an occupied spot.
C3_ConflictReturned ==
    /\ resp.op = "start" /\ resp.code = 409
    /\ NamedSpot(resp.req) # None /\ NamedSpot(resp.req)[1].is_occupied

\* C4: at most one billing result is returned for a booking.
C4_BilledOnce ==
    \A i, j \in 1..Len(billed) : i # j => billed[i] # billed[j]

\* C5: a booking's status only changes from active to completed, a booking
\* that is completed or cancelled is never written again, and no booking is
\* deleted.
C5_CompletedIsFinal ==
    [][/\ Len(booking') >= Len(booking)
       /\ \A k \in 1..Len(booking) :
            /\ booking[k].status # "active" => booking'[k] = booking[k]
            /\ booking'[k].status # booking[k].status =>
                  booking[k].status = "active" /\ booking'[k].status = "completed"]_vars

\* C6: one request at a time, the store never holds a second lot; a seed
\* that finds a lot answers seeded = false and writes nothing, and a seed
\* goes on to create only from the empty store and then answers
\* seeded = true.
C6_SeedIdempotent ==
    [][/\ Len(parkinglot') <= 1
       /\ (pc' = pc /\ resp'.op = "seed" /\ db) =>
             /\ parkinglot # << >>
             /\ resp'.code = 200 /\ resp'.seeded = FALSE
             /\ store' = store
       /\ \A w \in Worker :
             /\ (pc[w] = "idle" /\ pc'[w] = "seed_lot") => store = <<<< >>, << >>, << >>>>
             /\ (pc[w] = "seed_spots" /\ pc'[w] = "idle") =>
                   /\ resp'.code = 200 /\ resp'.seeded = TRUE
                   /\ Len(parkinglot') = 1]_vars

\* C6, reached: a seed on the seeded store was just answered seeded = false.
C6_SecondSeed ==
    /\ resp.op = "seed" /\ resp.code = 200 /\ resp.seeded = FALSE
    /\ Len(parkinglot) = 1 /\ Len(parkingspot) = SeedSpots

\* The occupied spots that carry the lot id of an entry of GET /lots.
OccupiedOf(entry) ==
    {j \in 1..Len(parkingspot) :
        parkingspot[j].lot_id = entry.id /\ parkingspot[j].is_occupied}

\* C7: GET /lots lists every lot with available_spots = total_spots minus
\* the number of occupied spots carrying its id, clamped to 0 when more
\* spots are occupied than total_spots; never negative.
C7_AvailableSpots ==
    (resp.op = "lots" /\ resp.code = 200) =>
        /\ Len(resp.body) = Len(parkinglot)
        /\ \A k \in 1..Len(resp.body) :
            LET entry == resp.body[k]
                occupied == Cardinality(OccupiedOf(entry))
            IN  /\ entry.id = str(parkinglot[k]._id)
                /\ entry.total_spots = parkinglot[k].total_spots
                /\ entry.available_spots >= 0
                /\ occupied <= entry.total_spots =>
                      entry.available_spots = entry.total_spots - occupied
                /\ occupied > entry.total_spots => entry.available_spots = 0

\* C7, reached: a listing with one lot clamped to 0 and another with some
\* but not all of its spots occupied.
C7_ClampedAndCounted ==
    /\ resp.op = "lots" /\ resp.code = 200
    /\ \E k \in 1..Len(resp.body) :
          Cardinality(OccupiedOf(resp.body[k])) > resp.body[k].total_spots
    /\ \E k \in 1..Len(resp.body) :
          /\ Cardinality(OccupiedOf(resp.body[k])) > 0
          /\ resp.body[k].available_spots > 0

\* A recommendation was returned.
Recommended == resp.op = "recommend" /\ resp.code = 200

\* The spots of the store a recommendation names (one: _ids are unique).
RecommendedSpot == {j \in 1..Len(parkingspot) : str(parkingspot[j]._id) = resp.spot_id}
RecommendedLot == {k \in 1..Len(parkinglot) : str(parkinglot[k]._id) = resp.lot_id}

\* The spot is unoccupied and carries the id of the returned lot.
FreeInReturnedLot(j) ==
    ~parkingspot[j].is_occupied /\ parkingspot[j].lot_id = resp.lot_id

\* C8 as stated: under any vehicle_type string the returned spot has that
\* type, is unoccupied and belongs to the returned lot.
C8_AnyFilterMatches ==
    (Recommended /\ resp.req.vehicle_type # None) =>
        /\ RecommendedSpot # {}
        /\ \A j \in RecommendedSpot :
              /\ parkingspot[j].vehicle_type = resp.req.vehicle_type[1]
              /\ FreeInReturnedLot(j)

\* C8, amended: under any vehicle_type string the returned spot is
\* unoccupied and belongs to the returned lot, and under any non-empty one
\* it has that type.
C8_NonEmptyFilterMatches ==
    (Recommended /\ resp.req.vehicle_type # None) =>
        /\ RecommendedSpot # {}
        /\ \A j \in RecommendedSpot :
              /\ resp.req.vehicle_type[1] # "" =>
                    parkingspot[j].vehicle_type = resp.req.vehicle_type[1]
              /\ FreeInReturnedLot(j)

\* C8, reached: an "ev" spot is recommended although an unoccupied spot of
\* another type stands before it in the same lot.
C8_FilterSkipsOtherType ==
    /\ Recommended /\ resp.req.vehicle_type = Some("ev")
    /\ \E j \in RecommendedSpot : \E i \in 1..(j - 1) :
          /\ parkingspot[i].lot_id = resp.lot_id
          /\ ~parkingspot[i].is_occupied
          /\ parkingspot[i].vehicle_type # "ev"

\* A filter is in force: a vehicle_type that is given and not empty.
FilterGiven(vehicle_type) == vehicle_type # None /\ vehicle_type[1] # ""

\* Spot j qualifies for lot k under the vehicle_type of a request.
Qualifies(j, k, vehicle_type) ==
    /\ parkingspot[j].lot_id = str(parkinglot[k]._id)
    /\ ~parkingspot[j].is_occupied
    /\ FilterGiven(vehicle_type) => parkingspot[j].vehicle_type = vehicle_type[1]

QualifyingOf(k, vehicle_type) ==
    {j \in 1..Len(parkingspot) : Qualifies(j, k, vehicle_type)}

\* C9: recommend answers the no-lots 404 exactly when the store holds no
\* lot, the no-suitable-spot 404 exactly when there are lots and none has
\* an unoccupied spot matching the filter, and a lot and a spot otherwise.
C9_RecommendErrors ==
    (resp.op = "recommend" /\ db) =>
        LET none_qualifies ==
                \A k \in 1..Len(parkinglot) :
                    QualifyingOf(k, resp.req.vehicle_type) = {}
        IN  /\ resp.code \in {200, 404}
            /\ (resp.code = 404 /\ resp.detail = "No parking lots available. Seed data first.")
                  <=> parkinglot = << >>
            /\ (resp.code = 404 /\ resp.detail = "No suitable spots found")
                  <=> (parkinglot # << >> /\ none_qualifies)
            /\ resp.code = 200 => (RecommendedLot # {} /\ RecommendedSpot # {})

\* C9, reached: "ev" is asked for, every "ev" spot is occupied, and the
\* answer is no-suitable-spot although a spot of another type is free in a
\* lot.
C9_EvOccupiedOthersFree ==
    /\ resp.op = "recommend" /\ resp.code = 404
    /\ resp.detail = "No suitable spots found"
    /\ resp.req.vehicle_type = Some("ev")
    /\ \E j \in 1..Len(parkingspot) :
          parkingspot[j].vehicle_type = "ev" /\ parkingspot[j].is_occupied
    /\ \E k \in 1..Len(parkinglot) : QualifyingOf(k, None) # {}

\* The score of lot k for a request: distance minus the qualifying spots.
ScoreOf(k, req) ==
    haversine(req.lat, req.lng, parkinglot[k].latitude, parkinglot[k].longitude)
        - Cardinality(QualifyingOf(k, req.vehicle_type))

\* C10: the lot returned has a qualifying spot and the least score among
\* the lots that have one, the earliest of them in store order on a tie;
\* the spot returned is its first qualifying spot in store order.
C10_BestLotFirstSpot ==
    Recommended =>
        /\ Cardinality(RecommendedLot) = 1
        /\ Cardinality(RecommendedSpot) = 1
        /\ \A i \in RecommendedLot :
            /\ QualifyingOf(i, resp.req.vehicle_type) # {}
            /\ \A k \in 1..Len(parkinglot) :
                  QualifyingOf(k, resp.req.vehicle_type) # {} =>
                      \/ ScoreOf(i, resp.req) < ScoreOf(k, resp.req)
                      \/ ScoreOf(i, resp.req) = ScoreOf(k, resp.req) /\ i <= k
            /\ \A j \in RecommendedSpot :
                  /\ j \in QualifyingOf(i, resp.req.vehicle_type)
                  /\ \A m \in QualifyingOf(i, resp.req.vehicle_type) : j <= m

\* C10, reached: two lots tie on the least score and the earlier one is
\* returned, and a farther lot with more spots beats a nearer one.
C10_TieKeepsFirst ==
    /\ Recommended
    /\ \E i \in RecommendedLot : \E k \in 1..Len(parkinglot) :
          /\ i < k
          /\ QualifyingOf(k, resp.req.vehicle_type) # {}
          /\ ScoreOf(i, resp.req) = ScoreOf(k, resp.req)
          /\ parkinglot[i].longitude > parkinglot[k].longitude

\* The lot a start request names, None when there is none.
NamedLot(req) ==
    IF ValidObjectId(req.lot_id) THEN find_one(parkinglot, ObjectId(req.lot_id))
    ELSE None

\* C11: with the store configured, a start request whose lot id is malformed
\* is answered 400 and one whose lot id is well-formed but names no lot is
\* answered 404 (or 400, where its spot id is malformed); neither writes to
\* the store, and neither gets past the checks to mark a spot or create a
\* booking.
C11_LotValidated ==
    [][/\ \A w \in Worker :
            (pc[w] = "idle" /\ pc'[w] = "start_mark") =>
                NamedLot(StartBookingRequest(local'[w].lot_id, local'[w].spot_id)) # None
       /\ (pc' = pc /\ resp'.op = "start" /\ db /\ bson) =>
            /\ ~ValidObjectId(resp'.req.lot_id) =>
                  (resp'.code = 400 /\ store' = store)
            /\ (ValidObjectId(resp'.req.lot_id) /\ NamedLot(resp'.req) = None) =>
                  (resp'.code \in {400, 404} /\ store' = store)]_vars

\* The booking an end request names, None when there is none.
NamedBooking(req) ==
    IF ValidObjectId(req.booking_id) THEN find_one(booking, ObjectId(req.booking_id))
    ELSE None

\* C12: an end request that found its booking active goes through: it
\* computes the price, marks the booking completed, and returns the billing
\* result it computed, whether the release of the spot is carried out,
\* raises on a malformed spot id or is failed by the store; the booking
\* stays completed and no error is returned.
C12_ReleaseNeverBlocks ==
    [][\A w \in Worker :
        /\ (pc[w] = "idle" /\ resp'.op = "end" /\ resp'.code # 200 /\ db /\ bson) =>
              (NamedBooking(resp'.req) = None \/ NamedBooking(resp'.req)[1].status # "active")
        /\ (pc[w] = "end_price" /\ pc'[w] # pc[w]) => pc'[w] = "end_close"
        /\ (pc[w] = "end_close" /\ pc'[w] # pc[w]) =>
              /\ pc'[w] = "end_free"
              /\ find_one(booking', local[w].doc[1]._id)[1].status = "completed"
        /\ (pc[w] = "end_free" /\ pc'[w] # pc[w]) =>
              /\ pc'[w] = "idle"
              /\ resp'.op = "end" /\ resp'.code = 200
              /\ resp'.req.booking_id = local[w].booking_id
              /\ resp'.amount_due = local[w].cost
              /\ resp'.duration_minutes = local[w].minutes
              /\ booking' = booking
              /\ find_one(booking', local[w].doc[1]._id)[1].status = "completed"
              /\ ~ValidObjectId(local[w].doc[1].spot_id) => parkingspot' = parkingspot]_vars

\* C12, reached: a billing result was just returned for a booking whose
\* spot_id is malformed; the booking is completed and the spot it could not
\* name is still occupied.
C12_BilledWithoutRelease ==
    /\ resp.op = "end" /\ resp.code = 200
    /\ NamedBooking(resp.req) # None
    /\ NamedBooking(resp.req)[1].status = "completed"
    /\ ~ValidObjectId(NamedBooking(resp.req)[1].spot_id)
    /\ \A k \in 1..Len(parkingspot) : parkingspot[k].is_occupied

\* The minutes from the start_time of a booking to the time t; a booking
\* without start_time started at t.
Elapsed(b, t) == IF b.start_time # None THEN t - b.start_time[1] ELSE 0

\* C13: the end request computes duration d as the minutes from the
\* booking's start_time to now and amount_due as d / 60 * p, p the price
\* per hour it resolved, rounded to the cent: the amount is within half a
\* cent of d * p / 60, it is 0 for d = 0 and 5.00 for d = 60 at p = 5.00,
\* and it is never negative; the response carries that d and that amount.
C13_AmountDue ==
    [][\A w \in Worker :
        /\ (pc[w] = "end_price" /\ pc'[w] # pc[w]) =>
              LET d == local'[w].minutes
                  p == local'[w].price_per_hour
                  amount_due == local'[w].cost
              IN  /\ d = Elapsed(local[w].doc[1], now)
                  /\ 2 * Abs(60 * amount_due - d * p) <= 60
                  /\ amount_due >= 0
                  /\ d = 0 => amount_due = 0
                  /\ (d = 60 /\ p = 500) => amount_due = 500
        /\ (pc[w] = "end_free" /\ pc'[w] # pc[w]) =>
              /\ resp'.duration_minutes = local[w].minutes
              /\ resp'.amount_due = local[w].cost]_vars

\* C13, reached: a billing result at the default price whose amount was
\* rounded up to the next cent.
C13_RoundedUp ==
    /\ resp.op = "end" /\ resp.code = 200
    /\ NamedBooking(resp.req) # None
    /\ NamedBooking(resp.req)[1].lot_id = EmptyStr
    /\ 60 * resp.amount_due > resp.duration_minutes * DefaultPrice
    /\ 60 * (resp.amount_due - 1) < resp.duration_minutes * DefaultPrice

\* The lots a booking's lot_id resolves to: none when it is missing,
\* malformed or the id of no lot.
ResolvedLots(b) ==
    {k \in 1..Len(parkinglot) :
        ValidObjectId(b.lot_id) /\ parkinglot[k]._id = ObjectId(b.lot_id)}

\* C15: the price lookup of an end request never fails: the request goes
\* on to close the booking and returns a billing result, priced at the
\* lot's own price_per_hour when the booking's lot_id resolves to a lot and
\* at the default 5.00 when it is missing, malformed or names no lot.
C15_LotLookupNeverFails ==
    [][\A w \in Worker :
        /\ (pc[w] = "end_price" /\ pc'[w] # pc[w]) =>
              /\ pc'[w] = "end_close"
              /\ ResolvedLots(local[w].doc[1]) = {} =>
                    local'[w].price_per_hour = DefaultPrice
              /\ \A k \in ResolvedLots(local[w].doc[1]) :
                    local'[w].price_per_hour = parkinglot[k].price_per_hour
              /\ 2 * Abs(60 * local'[w].cost
                          - local'[w].minutes * local'[w].price_per_hour) <= 60
        /\ (pc[w] = "end_close" /\ pc'[w] # pc[w]) =>
              /\ pc'[w] = "end_free"
              /\ local'[w] = local[w]
              /\ find_one(booking', local[w].doc[1]._id)[1].status = "completed"
        /\ (pc[w] = "end_free" /\ pc'[w] # pc[w]) =>
              /\ resp'.op = "end" /\ resp'.code = 200
              /\ resp'.amount_due = local[w].cost]_vars

\* C15, reached: a billing result for a booking whose lot_id is malformed,
\* for a positive duration, at the default price; and the store holds a lot
\* with another price.
C15_MalformedLotDefaultPrice ==
    /\ resp.op = "end" /\ resp.code = 200
    /\ NamedBooking(resp.req) # None
    /\ NamedBooking(resp.req)[1].lot_id = BadId
    /\ NamedBooking(resp.req)[1].status = "completed"
    /\ resp.duration_minutes > 0
    /\ 2 * Abs(60 * resp.amount_due - resp.duration_minutes * DefaultPrice) <= 60
    /\ \E k \in 1..Len(parkinglot) : parkinglot[k].price_per_hour # DefaultPrice

\* Worker w is in end_booking, past the status check, for a booking that
\* names the spot.
Ending(w, spot) ==
    pc[w] \in {"end_price", "end_close", "end_free"} /\ References(local[w].doc[1], spot)

\* The spot is occupied, no active booking references it and no request in
\* flight is about to write it or to create a booking for it.
Stranded(k) ==
    /\ parkingspot[k].is_occupied
    /\ ActiveBookingsOf(parkingspot[k]) = {}
    /\ \A w \in Worker : ~PastCheck(w, parkingspot[k]) /\ ~Ending(w, parkingspot[k])

\* C14: start_booking inserts the booking only after its write marked the
\* spot; a start request that dies between the two writes leaves its spot
\* occupied with no booking created and no active booking referencing it;
\* and a spot in that condition stays in it whatever request steps next, so
\* that no start or end request ever makes it unoccupied again.
C14_StrandedForever ==
    [][/\ \A w \in Worker :
            /\ (pc[w] = "start_mark" /\ pc'[w] = "start_insert") =>
                  /\ booking' = booking
                  /\ find_one(parkingspot', local[w].doc[1]._id)[1].is_occupied
            /\ (pc[w] = "start_insert" /\ Len(booking') > Len(booking)) =>
                  find_one(parkingspot, local[w].doc[1]._id)[1].is_occupied
            /\ (pc[w] = "start_insert" /\ pc'[w] = "idle" /\ booking' = booking) =>
                  \E k \in 1..Len(parkingspot') :
                      /\ parkingspot'[k]._id = local[w].doc[1]._id
                      /\ parkingspot'[k].is_occupied
                      /\ \A j \in 1..Len(booking') :
                            References(booking'[j], parkingspot'[k]) =>
                                booking'[j].status # "active"
       /\ Len(booking') > Len(booking) => \E w \in Worker : pc[w] = "start_insert"
       /\ \A k \in 1..Len(parkingspot) : Stranded(k) => Stranded(k)']_vars

\* C14, reached: a spot is occupied and no booking at all references it, as
\* a start request that died between its writes left it, and a later start
\* request for it was just answered 409.
C14_StrandedSpotRefused ==
    /\ resp.op = "start" /\ resp.code = 409
    /\ \E k \in 1..Len(parkingspot) :
          /\ str(parkingspot[k]._id) = resp.req.spot_id
          /\ Stranded(k)
          /\ \A j \in 1..Len(booking) : ~References(booking[j], parkingspot[k])

\* Every document of the collection is still there, unchanged.
Kept(coll, coll2) ==
    /\ Len(coll2) >= Len(coll)
    /\ \A k \in 1..Len(coll) : coll2[k] = coll[k]

\* The step is one of seed_demo_data.
SeedStep ==
    \/ resp'.op = "seed"
    \/ \E w \in Worker : pc[w] \in {"seed_lot", "seed_spots"} /\ pc'[w] # pc[w]
    \/ \E w \in Worker : pc[w] = "idle" /\ pc'[w] = "seed_lot"

\* C16: the root, list-lots, recommend and diagnostic requests leave the
\* three collections unchanged; a step of seed leaves every existing lot,
\* spot and booking unchanged; no spot is ever deleted, and the is_occupied
\* flag of a spot changes only in the marking write of start_booking and
\* the releasing write of end_booking.
C16_OccupancyFrame ==
    [][/\ resp'.op \in {"root", "test", "lots", "recommend"} => store' = store
       /\ SeedStep =>
            /\ Kept(parkinglot, parkinglot')
            /\ Kept(parkingspot, parkingspot')
            /\ Kept(booking, booking')
       /\ Len(parkingspot') >= Len(parkingspot)
       /\ \A k \in 1..Len(parkingspot) :
            /\ parkingspot'[k]._id = parkingspot[k]._id
            /\ parkingspot'[k].is_occupied # parkingspot[k].is_occupied =>
                  \E w \in Worker :
                      \/ pc[w] = "start_mark" /\ pc'[w] = "start_insert"
                      \/ pc[w] = "end_free" /\ pc'[w] = "idle"]_vars

\* C16, reached: a recommendation was just returned from a store that holds
\* an occupied spot with its active booking.
C16_RecommendAmongOccupied ==
    /\ Recommended
    /\ \E k \in 1..Len(parkingspot) :
          /\ parkingspot[k].is_occupied
          /\ ActiveBookingsOf(parkingspot[k]) # {}
    /\ \A j \in RecommendedSpot : ~parkingspot[j].is_occupied

\* C17: a start or end request is answered with an error (400, 404, 409 or
\* 500) only in its first step, before any of its writes, and that step
\* leaves the three collections as they were; a request that got past its
\* checks returns a success.
C17_ErrorsWriteNothing ==
    [][/\ (resp'.op \in {"start", "end"} /\ resp'.code \in {400, 404, 409, 500}) =>
            /\ pc' = pc
            /\ store' = store
            /\ nextId' = nextId
       /\ \A w \in Worker :
            (pc[w] \in {"start_mark", "start_insert", "end_price", "end_close", "end_free"}
                /\ pc'[w] = "idle") => resp'.code = 200]_vars

\* C17, reached: an end request for a completed booking was just answered
\* 409 at a later time than the booking's end_time, which it left alone.
C17_SecondEndRefused ==
    /\ resp.op = "end" /\ resp.code = 409
    /\ NamedBooking(resp.req) # None
    /\ NamedBooking(resp.req)[1].status = "completed"
    /\ NamedBooking(resp.req)[1].end_time # Some(now)

\* The lots whose id the spot carries.
LotsOf(spot) == {l \in 1..Len(parkinglot) : str(parkinglot[l]._id) = spot.lot_id}

\* C18: one request at a time, the marking write of a start takes one from
\* the available_spots of the spot's lot, and the release of the end of
\* that booking finds the spot occupied, leaves it unoccupied and gives the
\* one back; and whenever no request is in flight and no booking is active,
\* every spot is unoccupied.
C18_NoSpotLeak ==
    [][/\ \A w \in Worker : \A k \in 1..Len(parkingspot) :
            /\ (pc[w] = "start_mark" /\ pc'[w] = "start_insert"
                    /\ parkingspot[k]._id = local[w].doc[1]._id) =>
                  /\ ~parkingspot[k].is_occupied /\ parkingspot'[k].is_occupied
                  /\ \A l \in LotsOf(parkingspot[k]) :
                        available_spots(parkinglot[l])' = available_spots(parkinglot[l]) - 1
            /\ (pc[w] = "end_free" /\ pc'[w] = "idle"
                    /\ References(local[w].doc[1], parkingspot[k])) =>
                  /\ parkingspot[k].is_occupied /\ ~parkingspot'[k].is_occupied
                  /\ \A l \in LotsOf(parkingspot[k]) :
                        available_spots(parkinglot[l])' = available_spots(parkinglot[l]) + 1
       /\ \A w \in Worker :
            (pc[w] = "end_free" /\ pc'[w] = "idle") =>
                \E k \in 1..Len(parkingspot) : References(local[w].doc[1], parkingspot[k])
       /\ (Quiescent /\ \A j \in 1..Len(booking) : booking[j].status # "active")' =>
            (\A k \in 1..Len(parkingspot) : ~parkingspot[k].is_occupied)']_vars

\* C18, reached: the end of the second stay on a spot was just billed; both
\* bookings are completed and the spot is unoccupied.
C18_SpotBookedAgain ==
    /\ resp.op = "end" /\ resp.code = 200
    /\ Quiescent
    /\ \E k \in 1..Len(parkingspot) :
          /\ ~parkingspot[k].is_occupied
          /\ Cardinality({j \in 1..Len(booking) :
                            /\ References(booking[j], parkingspot[k])
                            /\ booking[j].status = "completed"}) = 2
          /\ \A l \in LotsOf(parkingspot[k]) :
                available_spots(parkinglot[l]) = parkinglot[l].total_spots

\* The spots that carry the id of lot l, and the unoccupied ones among
\* them (those recommend_parking counts).
SpotsOf(l) ==
    {k \in 1..Len(parkingspot) : parkingspot[k].lot_id = str(parkinglot[l]._id)}
FreeSpotsOf(l) == {k \in SpotsOf(l) : ~parkingspot[k].is_occupied}

\* C19: whenever no request is in flight, the total_spots of every lot is
\* the number of spots carrying its id, twelve for a seeded lot, and the
\* available_spots GET /lots reports for a lot is the number of its
\* unoccupied spots.
C19_TotalIsSpotCount ==
    Quiescent =>
        /\ \A l \in 1..Len(parkinglot) :
              /\ parkinglot[l].total_spots = Cardinality(SpotsOf(l))
              /\ Cardinality(SpotsOf(l)) = SeedSpots
        /\ (resp.op = "lots" /\ resp.code = 200) =>
              \A l \in 1..Len(resp.body) :
                  resp.body[l].available_spots = Cardinality(FreeSpotsOf(l))

\* The references of the booking resolve: its spot exists and carries the
\* booking's lot_id.
Consistent(b) ==
    \E k \in 1..Len(parkingspot) :
        References(b, parkingspot[k]) /\ parkingspot[k].lot_id = b.lot_id

\* C20: every booking references an existing spot and carries the lot_id of
\* that spot.
C20_BookingLotIsSpotLot ==
    \A j \in 1..Len(booking) : Consistent(booking[j])

=============================================================================
